---------------------------- MODULE Spec2Model ----------------------------
(***************************************************************************)
(* Model of the DLPC900 control library.                                   *)
(*                                                                         *)
(*   Spec        dmd.send_command (src/dlpyc900/dlpyc900.py): the USB      *)
(*               frame codec and the chunked, retried transfer, stepped at *)
(*               every transport call.                                     *)
(*   SpecSerial  RS485Device (src/dlpyc900/WCIL.py): the serial frame      *)
(*               codec and its four operations.                            *)
(*   SpecFacade  the operations of dmd built on send_command (display      *)
(*               mode, power mode, pattern LUT, on-the-fly load), stepped  *)
(*               at every send_command call.                               *)
(*                                                                         *)
(* Bytes are integers 0..255, byte strings are sequences, and sequences    *)
(* are indexed from 1 (the source indexes from 0).                         *)
(***************************************************************************)
EXTENDS Integers, Sequences, FiniteSets, TLC

VARIABLES
    pc,             \* position inside send_command
    mode,           \* send_command argument: "r" or "w"
    sequence_byte,  \* send_command argument
    command,        \* send_command argument
    payload,        \* send_command argument
    buffer,         \* local: header plus first payload bytes
    remaining_data, \* local: payload bytes not yet put in a chunk
    chunk,          \* local: the continuation chunk being written
    answer,         \* local: what dev.read returned, or None
    writes,         \* every dev.write call so far: [data, ok]
    reads,          \* number of dev.read calls so far
    failures,       \* transport failures injected so far
    outcome,        \* how send_command ended
    ret,            \* the value send_command returned
    s_pc,           \* position inside a serial operation
    s_op,           \* the serial operation in progress
    s_func,         \* its function code
    s_current,      \* the argument of set_output_current, when called
    s_data,         \* the three data bytes it sends
    s_frame,        \* the frame _build_frame returned
    s_written,      \* every serial.write call so far
    s_reads,        \* number of serial.read calls so far
    s_response,     \* what serial.read returned
    s_result,       \* what the serial operation returned
    current_mode,   \* dmd.current_mode, the cached display mode
    last_read,      \* the mode the latest get_display_mode call that
                    \* returned gave back, "none" before the first
    f_pc,           \* position inside an operation of dmd
    f_call,         \* the operation in progress and its arguments
    f_prev,         \* "standby" if the call before was a standby call
                    \* that returned, "set_video" if it was a
                    \* set_display_mode('video') that returned, else "none"
    f_entry_mode,   \* dmd.current_mode when the operation was called
    f_tx,           \* the send_command calls of the operation, in order
    usb_writes,     \* dev.write calls made by the operation
    usb_reads,      \* dev.read calls made by the operation
    f_local,        \* the local the operation holds between two calls
    f_outcome,      \* how the operation ended
    f_ret           \* the value the operation returned

usbvars == <<pc, mode, sequence_byte, command, payload, buffer, remaining_data,
             chunk, answer, writes, reads, failures, outcome, ret>>
serialvars == <<s_pc, s_op, s_func, s_current, s_data, s_frame, s_written, s_reads,
                s_response, s_result>>
facadevars == <<current_mode, last_read, f_pc, f_call, f_prev, f_entry_mode, f_tx,
                usb_writes, usb_reads, f_local, f_outcome, f_ret>>
vars == <<usbvars, serialvars, facadevars>>

\* Python values of different types are tagged so that they can be compared
None == [tag |-> "None"]
IndexError == [tag |-> "IndexError"]
Bytes(b) == [tag |-> "bytes", bytes |-> b]

-----------------------------------------------------------------------------
(* Bounds of the model *)

\* largest payload length handed to send_command
MaxPayloadLen == 508
\* transport write failures injected into one send_command call
MaxFailures == 2

-----------------------------------------------------------------------------
(* Program constants *)

BufferLimit == 512
HeaderLen == 6
PacketSize == 64
FirstChunkPayload == 58
ReadSize == 64

-----------------------------------------------------------------------------
(* Python list helpers *)

Min(a, b) == IF a < b THEN a ELSE b
Max(a, b) == IF a > b THEN a ELSE b

\* a slice bound as Python reads it: a negative bound counts from the end,
\* and every bound is cut to 0..n
SliceBound(k, n) == IF k < 0 THEN Max(k + n, 0) ELSE Min(k, n)

\* s[i:j]: the elements at 0-based positions i..j-1; never an error, the
\* result is silently cut at the ends of s
Slice(s, i, j) ==
    LET lo == SliceBound(i, Len(s))
        hi == SliceBound(j, Len(s))
    IN  IF lo < hi THEN SubSeq(s, lo + 1, hi) ELSE <<>>

\* s[i:]
SliceFrom(s, i) == Slice(s, i, Len(s))

RECURSIVE Sum(_)
\* sum(s)
Sum(s) == IF Len(s) = 0 THEN 0 ELSE s[1] + Sum(Tail(s))

\* [0x00] * n  (the empty list for n <= 0)
Zeros(n) == [i \in 1..Max(n, 0) |-> 0]

Reverse(s) == [i \in 1..Len(s) |-> s[Len(s) + 1 - i]]

-----------------------------------------------------------------------------
(* bits_to_bytes / number_to_bits: a bit string is a sequence of 0/1, most  *)
(* significant bit first, as in the Python str                              *)

RECURSIVE Binary(_)
\* format(a, 'b') for a >= 0: no leading zeros, "0" for 0
Binary(a) == IF a < 2 THEN <<a>> ELSE Binary(a \div 2) \o <<a % 2>>

\* format(a, '0{bitlen}b'): zero-filled on the left to at least bitlen digits
number_to_bits(a, bitlen) ==
    LET b == Binary(a) IN Zeros(bitlen - Len(b)) \o b

RECURSIVE BitsValue(_)
\* int(bits, 2)
BitsValue(bits) ==
    IF Len(bits) = 0 THEN 0
    ELSE 2 * BitsValue(SubSeq(bits, 1, Len(bits) - 1)) + bits[Len(bits)]

\* faulty variant: the groups of eight are not reversed (big-endian result)
bits_to_bytes_noreverse(bits) ==
    [k \in 1..((Len(bits) + 7) \div 8) |-> BitsValue(Slice(bits, 8 * (k - 1), 8 * k))]

\* [int(bits[i:i+8], 2) for i in range(0, len(bits), 8)], then reversed
bits_to_bytes(bits) ==
    Reverse([k \in 1..((Len(bits) + 7) \div 8) |->
                BitsValue(Slice(bits, 8 * (k - 1), 8 * k))])

\* x & 0x20 != 0
Bit5(x) == (x \div 32) % 2 = 1

-----------------------------------------------------------------------------
(* parse_reply *)

\* faulty variant: the data field is cut one byte short
parse_reply_short(reply) ==
    IF reply = None THEN None
    ELSE LET b == reply.bytes IN
         IF Len(b) < 4 THEN IndexError
         ELSE LET length == b[3] + 256 * b[4] IN
              [tag |-> "reply",
               error_flag |-> Bit5(b[1]),
               flag_byte |-> number_to_bits(b[1], 8),
               sequence_byte |-> b[2],
               length |-> length,
               data |-> Slice(b, 4, 4 + length - 1)]

\* reply[0]..reply[3] raise IndexError on a reply shorter than four bytes;
\* the slice reply[4:4+length] never raises, it is cut at the end of reply
parse_reply(reply) ==
    IF reply = None THEN None
    ELSE LET b == reply.bytes IN
         IF Len(b) < 4 THEN IndexError
         ELSE LET length == b[3] + 256 * b[4] IN
              [tag |-> "reply",
               error_flag |-> Bit5(b[1]),
               flag_byte |-> number_to_bits(b[1], 8),
               sequence_byte |-> b[2],
               length |-> length,
               data |-> Slice(b, 4, 4 + length)]

-----------------------------------------------------------------------------
(* send_command: the inputs *)

Modes == {"r", "w"}
SequenceBytes == {34, 255}
Commands == {512, 6708}

\* the payload lengths tried: the shortest ones, one inside a packet, both
\* sides of every packet boundary (58 + 64k), and those around the limit
PayloadLens ==
    {n \in 0..MaxPayloadLen :
        \/ n <= 2
        \/ n \in {20, 57, 100}
        \/ n % PacketSize \in {58, 59}
        \/ n >= BufferLimit - HeaderLen - 1}

\* payload contents: all zero (indistinguishable from padding), or a ramp of
\* non-zero bytes that tells every position from its neighbours
PayloadKinds == {"zeros", "ramp"}
PayloadOf(n, kind) ==
    [i \in 1..n |-> IF kind = "zeros" THEN 0 ELSE (i % 255) + 1]
Payloads == {PayloadOf(n, k) : n \in PayloadLens, k \in PayloadKinds}

\* what the device may put in the 64-byte read window: flag, sequence,
\* declared length (little-endian), that many data bytes, zero fill; the
\* transfer may end after `total` bytes
ReplyBytes(flag, seq, length, total) ==
    Slice(<<flag, seq, length % 256, length \div 256>>
            \o [i \in 1..length |-> ((7 * i) % 255) + 1]
            \o Zeros(ReadSize - 4 - length),
          0, total)

Replies ==
    { ReplyBytes(0, 34, 1, 64),      \* ordinary one-byte answer
      ReplyBytes(192, 255, 3, 64),   \* answer echoing the read flag
      ReplyBytes(0, 34, 0, 64),      \* empty data field
      ReplyBytes(0, 34, 60, 64),     \* data field filling the window exactly
      ReplyBytes(224, 34, 0, 64),    \* error flag (bit 5) set
      ReplyBytes(32, 34, 2, 64),     \* error flag set, data present
      ReplyBytes(0, 34, 61, 64),     \* declares one byte more than received
      ReplyBytes(0, 34, 300, 64),    \* declares far more than received
      ReplyBytes(0, 34, 5, 6),       \* short transfer, header complete
      ReplyBytes(0, 34, 1, 3),       \* short transfer, header incomplete
      ReplyBytes(32, 34, 1, 2),      \* short transfer, error flag set
      ReplyBytes(0, 34, 1, 0) }      \* empty transfer

-----------------------------------------------------------------------------
(* send_command: pure parts *)

\* lines 89-106: flag byte, sequence byte, length (payload + 2 command
\* bytes), command (little-endian)
Header(m, s, c, p) ==
    LET flag_string == <<IF m = "r" THEN 1 ELSE 0>> \o <<1, 0, 0, 0, 0, 0, 0>>
        temp == bits_to_bytes(number_to_bits(Len(p) + 2, 16))
    IN  <<bits_to_bytes(flag_string)[1], s, temp[1], temp[2],
          c % 256, (c \div 256) % 256>>

\* faulty variant: the limit is off by one
PayloadTooLarge_offbyone(p) == Len(p) + HeaderLen > BufferLimit + 1

\* line 108
PayloadTooLarge(p) == Len(p) + HeaderLen > BufferLimit

\* faulty variant: a frame of 65 bytes is still treated as one packet
FitsOnePacket_le(buf, p) == Len(buf) + Len(p) <= PacketSize + 1

\* line 112
FitsOnePacket(buf, p) == Len(buf) + Len(p) < PacketSize + 1

\* faulty variant: pads to 63 bytes
Padded_short(s) == s \o Zeros(PacketSize - 1 - Len(s))

\* lines 114 and 130-131: x.extend([0x00] * (64 - len(x)))
Padded(s) == s \o Zeros(PacketSize - Len(s))

-----------------------------------------------------------------------------
(* send_command: the transport *)

\* self.dev.write(1, data): the call is recorded; it either succeeds or
\* raises usb.USBError
DevWrite(data, ok) ==
    /\ ok \/ failures < MaxFailures
    /\ writes' = Append(writes, [data |-> data, ok |-> ok])
    /\ failures' = IF ok THEN failures ELSE failures + 1

Raise(e) ==
    /\ pc' = "done"
    /\ outcome' = e

PayloadError == "DMDerror: Payload exceeds 512-byte buffer limit"
FlagError == "DMDerror: DMD reply has error flag set!"
USBError == "USBError"

-----------------------------------------------------------------------------
(* send_command: the steps *)

\* lines 86-114 and 122-123: build the header, refuse an oversized payload,
\* then prepare the single padded packet or the first packet of several
send_command(m, s, c, p) ==
    /\ pc = "idle"
    /\ mode' = m
    /\ sequence_byte' = s
    /\ command' = c
    /\ payload' = p
    /\ IF PayloadTooLarge(p)
       THEN /\ Raise(PayloadError)
            /\ buffer' = Header(m, s, c, p)
            /\ UNCHANGED remaining_data
       ELSE IF FitsOnePacket(Header(m, s, c, p), p)
       THEN /\ buffer' = Padded(Header(m, s, c, p) \o p)
            /\ pc' = "write_single"
            /\ UNCHANGED <<remaining_data, outcome>>
       ELSE /\ buffer' = Header(m, s, c, p) \o Slice(p, 0, FirstChunkPayload)
            /\ remaining_data' = p
            /\ pc' = "write_first"
            /\ UNCHANGED outcome
    /\ UNCHANGED <<chunk, answer, writes, reads, failures, ret>>

\* lines 115-117: the single packet, first attempt
WriteSingle ==
    /\ pc = "write_single"
    /\ \E ok \in BOOLEAN :
          /\ DevWrite(buffer, ok)
          /\ pc' = IF ok THEN "reply" ELSE "retry_single"
    /\ UNCHANGED <<mode, sequence_byte, command, payload, buffer,
                   remaining_data, chunk, answer, reads, outcome, ret>>

\* lines 117-120: the single packet, second attempt; its USBError propagates
RetrySingle ==
    /\ pc = "retry_single"
    /\ \E ok \in BOOLEAN :
          /\ DevWrite(buffer, ok)
          /\ IF ok THEN pc' = "reply" /\ UNCHANGED outcome
                   ELSE Raise(USBError)
    /\ UNCHANGED <<mode, sequence_byte, command, payload, buffer,
                   remaining_data, chunk, answer, reads, ret>>

\* lines 124-125: the first packet of several is written outside any try
\* block, so its USBError propagates at once
WriteFirst ==
    /\ pc = "write_first"
    /\ \E ok \in BOOLEAN :
          /\ DevWrite(buffer, ok)
          /\ IF ok
             THEN /\ remaining_data' = SliceFrom(remaining_data, FirstChunkPayload)
                  /\ pc' = "loop"
                  /\ UNCHANGED outcome
             ELSE /\ Raise(USBError)
                  /\ UNCHANGED remaining_data
    /\ UNCHANGED <<mode, sequence_byte, command, payload, buffer,
                   chunk, answer, reads, ret>>

\* lines 127-131: the loop head cuts and pads the next chunk, or leaves
NextChunk ==
    /\ pc = "loop"
    /\ IF Len(remaining_data) > 0
       THEN /\ chunk' = Padded(Slice(remaining_data, 0, PacketSize))
            /\ remaining_data' = SliceFrom(remaining_data, PacketSize)
            /\ pc' = "write_chunk"
       ELSE /\ pc' = "reply"
            /\ UNCHANGED <<chunk, remaining_data>>
    /\ UNCHANGED <<mode, sequence_byte, command, payload, buffer, answer,
                   writes, reads, failures, outcome, ret>>

\* lines 132-134: a continuation chunk, first attempt
WriteChunk ==
    /\ pc = "write_chunk"
    /\ \E ok \in BOOLEAN :
          /\ DevWrite(chunk, ok)
          /\ pc' = IF ok THEN "loop" ELSE "retry_chunk"
    /\ UNCHANGED <<mode, sequence_byte, command, payload, buffer,
                   remaining_data, chunk, answer, reads, outcome, ret>>

\* lines 134-137: a continuation chunk, second attempt
RetryChunk ==
    /\ pc = "retry_chunk"
    /\ \E ok \in BOOLEAN :
          /\ DevWrite(chunk, ok)
          /\ IF ok THEN pc' = "loop" /\ UNCHANGED outcome
                   ELSE Raise(USBError)
    /\ UNCHANGED <<mode, sequence_byte, command, payload, buffer,
                   remaining_data, chunk, answer, reads, ret>>

\* faulty variant: the error flag is looked for in bit 6
HasErrorFlag_bit6(a) == (a[1] \div 64) % 2 = 1

\* line 142: answer[0] & 0x20
HasErrorFlag(a) == Bit5(a[1])

\* lines 139-143 and 146: one read of 64 bytes; usb.USBError propagates;
\* answer[0] raises IndexError on an empty answer
ReadReply ==
    /\ pc = "reply"
    /\ mode = "r"
    /\ reads' = reads + 1
    /\ \/ /\ Raise(USBError)
          /\ UNCHANGED <<answer, ret>>
       \/ \E a \in Replies :
             /\ answer' = Bytes(a)
             /\ pc' = "done"
             /\ IF Len(a) = 0
                THEN outcome' = "IndexError" /\ UNCHANGED ret
                ELSE IF HasErrorFlag(a)
                THEN outcome' = FlagError /\ UNCHANGED ret
                ELSE IF parse_reply(Bytes(a)) = IndexError
                THEN outcome' = "IndexError" /\ UNCHANGED ret
                ELSE outcome' = "returned" /\ ret' = parse_reply(Bytes(a))
    /\ UNCHANGED <<mode, sequence_byte, command, payload, buffer,
                   remaining_data, chunk, writes, failures>>

\* lines 144-146: a write transaction reads nothing and returns
\* parse_reply(None)
NoReply ==
    /\ pc = "reply"
    /\ mode # "r"
    /\ answer' = None
    /\ ret' = parse_reply(None)
    /\ pc' = "done"
    /\ outcome' = "returned"
    /\ UNCHANGED <<mode, sequence_byte, command, payload, buffer,
                   remaining_data, chunk, writes, reads, failures>>

-----------------------------------------------------------------------------
(* The USB specification *)

InitUSB ==
    /\ pc = "idle"
    /\ mode = "w"
    /\ sequence_byte = 0
    /\ command = 0
    /\ payload = <<>>
    /\ buffer = <<>>
    /\ remaining_data = <<>>
    /\ chunk = <<>>
    /\ answer = None
    /\ writes = <<>>
    /\ reads = 0
    /\ failures = 0
    /\ outcome = "running"
    /\ ret = None

InitSerial ==
    /\ s_pc = "idle"
    /\ s_op = "none"
    /\ s_func = 0
    /\ s_current = 0
    /\ s_data = <<>>
    /\ s_frame = <<>>
    /\ s_written = <<>>
    /\ s_reads = 0
    /\ s_response = <<>>
    /\ s_result = None

\* dmd.__init__, line 53: a fresh facade caches "pattern"
InitFacade ==
    /\ current_mode = "pattern"
    /\ last_read = "none"
    /\ f_pc = "idle"
    /\ f_call = [op |-> "none"]
    /\ f_prev = "none"
    /\ f_entry_mode = "pattern"
    /\ f_tx = <<>>
    /\ usb_writes = 0
    /\ usb_reads = 0
    /\ f_local = None
    /\ f_outcome = "running"
    /\ f_ret = None

Init == InitUSB /\ InitSerial /\ InitFacade

Call ==
    \E m \in Modes, s \in SequenceBytes, c \in Commands, p \in Payloads :
        send_command(m, s, c, p)

Next ==
    \/ Call /\ UNCHANGED <<serialvars, facadevars>>
    \/ WriteSingle /\ UNCHANGED <<serialvars, facadevars>>
    \/ RetrySingle /\ UNCHANGED <<serialvars, facadevars>>
    \/ WriteFirst /\ UNCHANGED <<serialvars, facadevars>>
    \/ NextChunk /\ UNCHANGED <<serialvars, facadevars>>
    \/ WriteChunk /\ UNCHANGED <<serialvars, facadevars>>
    \/ RetryChunk /\ UNCHANGED <<serialvars, facadevars>>
    \/ ReadReply /\ UNCHANGED <<serialvars, facadevars>>
    \/ NoReply /\ UNCHANGED <<serialvars, facadevars>>

Spec == Init /\ [][Next]_vars

-----------------------------------------------------------------------------
(* What went over the wire *)

\* the dev.write calls the transport accepted, in order
OkWrites == SelectSeq(writes, LAMBDA w : w.ok)

RECURSIVE Concat(_)
Concat(ws) == IF Len(ws) = 0 THEN <<>> ELSE ws[1].data \o Concat(Tail(ws))

\* the bytes the device received
Wire == Concat(OkWrites)

\* control is past the last write of the frame (line 138 or later)
WritesDone ==
    \/ pc = "reply"
    \/ pc = "done" /\ outcome = "returned"
    \/ pc = "done" /\ reads > 0

\* 1 for a payload of at most 58 bytes, else 1 + ceil((n - 58) / 64)
PacketCount(n) ==
    IF n <= 58 THEN 1 ELSE 1 + ((n - 58 + 63) \div 64)

-----------------------------------------------------------------------------
(* Claims about send_command *)

\* C1: the first packet starts with the flag byte (0xC0 read, 0x40 write),
\* the sequence byte, len(payload)+2 little-endian and the command
\* little-endian; once all packets are written, the payload follows the six
\* header bytes verbatim.
C1_HeaderLayout ==
    /\ Len(writes) > 0 =>
          LET first == writes[1].data IN
          /\ first[1] = (IF mode = "r" THEN 192 ELSE 64)
          /\ first[2] = sequence_byte
          /\ first[3] = (Len(payload) + 2) % 256
          /\ first[4] = (Len(payload) + 2) \div 256
          /\ first[5] = command % 256
          /\ first[6] = command \div 256
    /\ WritesDone => SubSeq(Wire, 7, 6 + Len(payload)) = payload

C1_Witness ==
    /\ pc = "reply"
    /\ mode = "r"
    /\ command = 6708
    /\ Len(payload) = 315
    /\ payload[1] # 0

\* C2: parse_reply applied to the concatenated packets of a frame gives back
\* the sequence byte, the length len(payload)+2, and a data field of exactly
\* that many bytes: the command little-endian, then the payload, no padding.
C2_RoundTrip ==
    WritesDone =>
        LET r == parse_reply(Bytes(Wire)) IN
        /\ r.tag = "reply"
        /\ r.sequence_byte = sequence_byte
        /\ r.length = Len(payload) + 2
        /\ Len(r.data) = Len(payload) + 2
        /\ r.data = <<command % 256, command \div 256>> \o payload

C2_Witness ==
    /\ pc = "reply"
    /\ Len(payload) = 506
    /\ payload[1] # 0
    /\ Len(parse_reply(Bytes(Wire)).data) = 508

\* C3: a payload with len(payload)+6 > 512 ends send_command with the
\* payload error, and neither a write nor a read has been issued, in read
\* mode as in write mode.
C3_TooLargeRefused ==
    (pc # "idle" /\ Len(payload) + 6 > 512) =>
        /\ pc = "done"
        /\ outcome = PayloadError
        /\ writes = <<>>
        /\ reads = 0

C3_Witness ==
    /\ pc = "done"
    /\ mode = "r"
    /\ Len(payload) = 507
    /\ outcome = PayloadError

\* C4: once the frame is written, the transport has accepted exactly
\* PacketCount(len(payload)) packets, and without a transport failure that
\* is the number of writes; with more than 58 payload bytes the first packet
\* is the header followed by the first 58 payload bytes.
C4_PacketCount ==
    WritesDone =>
        /\ Len(OkWrites) = PacketCount(Len(payload))
        /\ failures = 0 => Len(writes) = PacketCount(Len(payload))
        /\ Len(payload) >= 59 =>
              OkWrites[1].data =
                  Header(mode, sequence_byte, command, payload)
                      \o SubSeq(payload, 1, 58)

C4_Witness ==
    /\ pc = "reply"
    /\ failures = 0
    /\ Len(payload) = 59
    /\ Len(writes) = 2

\* C5: every buffer handed to the transport is 64 bytes long; once the frame
\* is written, the accepted packets concatenated are header, payload and
\* then only zeros, fewer than 64 of them (so padding is in the last packet
\* alone and no header is repeated).
C5_Chunks ==
    /\ \A i \in 1..Len(writes) : Len(writes[i].data) = 64
    /\ WritesDone =>
          LET total == 6 + Len(payload)
              k == Len(OkWrites)
          IN  /\ 64 * (k - 1) < total
              /\ total <= 64 * k
              /\ Wire = Header(mode, sequence_byte, command, payload)
                            \o payload \o Zeros(64 * k - total)

C5_Witness ==
    /\ pc = "reply"
    /\ Len(payload) = 123
    /\ payload[1] # 0
    /\ Len(OkWrites) = 3
    /\ OkWrites[3].data = <<payload[123]>> \o Zeros(63)

\* C6: every chunk write that fails is retried exactly once, the first chunk
\* of a multi-packet frame included: a failed write is either the first
\* attempt of its chunk, followed by a second attempt of the same buffer
\* (or still waiting for it), or the second attempt, after which
\* send_command has ended with the transport error and read nothing.
C6_EveryChunkRetriedOnce ==
    \A i \in 1..Len(writes) :
        ~writes[i].ok =>
            \/ /\ i > 1
               /\ ~writes[i - 1].ok
               /\ writes[i - 1].data = writes[i].data
               /\ i = Len(writes)
               /\ pc = "done"
               /\ outcome = USBError
               /\ reads = 0
            \/ /\ i < Len(writes)
               /\ writes[i + 1].data = writes[i].data
               /\ (i > 1 => writes[i - 1].ok)
            \/ /\ i = Len(writes)
               /\ pc \in {"retry_single", "retry_first", "retry_chunk"}
               /\ (i > 1 => writes[i - 1].ok)

\* C7: a write-mode call never reads and returns None; a read-mode call
\* reads exactly once, only when the whole frame has been accepted by the
\* transport, and never again after that read, whether it failed or not; a
\* reply with bit 5 of its flag byte set ends the call with the device
\* error, any other reply carrying the four header bytes is returned parsed.
C7_ReadAfterWrites ==
    /\ reads <= 1
    /\ mode # "r" => reads = 0
    /\ (pc = "done" /\ mode # "r" /\ outcome = "returned") =>
          (ret = None /\ answer = None)
    /\ (pc = "done" /\ mode = "r" /\ outcome \notin {PayloadError, USBError}) =>
          reads = 1
    /\ reads = 1 =>
          /\ pc = "done"
          /\ Len(OkWrites) = PacketCount(Len(payload))
          /\ writes[Len(writes)].ok
          /\ outcome = USBError => (answer = None /\ ret = None)
          /\ outcome # USBError =>
                LET a == answer.bytes IN
                /\ (Len(a) > 0 /\ Bit5(a[1])) => outcome = FlagError
                /\ (Len(a) >= 4 /\ ~Bit5(a[1])) =>
                      (outcome = "returned" /\ ret = parse_reply(answer))
                /\ outcome = "returned" => ret = parse_reply(answer)

C7_Witness ==
    /\ pc = "done"
    /\ mode = "r"
    /\ reads = 1
    /\ Len(payload) = 59
    /\ failures = 1
    /\ outcome = "returned"
    /\ answer = Bytes(ReplyBytes(192, 255, 3, 64))
    /\ ret.data = <<8, 15, 22>>

\* C8: a reply with fewer than four header bytes, or declaring more data
\* bytes than were received after the header, ends the call with an error;
\* a returned reply never holds fewer data bytes than its length field says.
C8_NoTruncatedReply ==
    (pc = "done" /\ reads = 1 /\ answer # None) =>
        LET a == answer.bytes IN
        /\ Len(a) < 4 => outcome # "returned"
        /\ (Len(a) >= 4 /\ a[3] + 256 * a[4] > Len(a) - 4) =>
              outcome # "returned"
        /\ outcome = "returned" => Len(ret.data) = ret.length

-----------------------------------------------------------------------------
(* RS485Device (WCIL.py): the frame codec *)

frame_header == <<85, 170>>
frame_tail == <<218, 195>>
address == 1

PyBool(b) == [tag |-> "bool", value |-> b]

\* sum(data) & 0xFF
calculate_checksum(data) == Sum(data) % 256

\* frame holds header, address, function code and data when the checksum is
\* taken over frame[3:-2]; checksum and tail are appended afterwards
build_frame(func_code, data) ==
    LET frame == frame_header \o <<address, func_code>> \o data
        checksum == calculate_checksum(Slice(frame, 3, -2))
    IN  frame \o <<checksum>> \o frame_tail

\* lines 33-40
validate_response(response, expected_func_code) ==
    IF Len(response) < 8 THEN FALSE
    ELSE IF Slice(response, 0, 2) # frame_header
            \/ Slice(response, -2, Len(response)) # frame_tail THEN FALSE
    ELSE IF response[3] # address \/ response[4] # expected_func_code THEN FALSE
    ELSE calculate_checksum(Slice(response, 3, -3)) = response[Len(response) - 2]

-----------------------------------------------------------------------------
(* RS485Device: the inputs *)

\* largest current, in mA, asked of set_output_current
MaxCurrent == 3502

CurrentLimit == 3500

\* the currents tried: both sides of each byte boundary and of the limit,
\* the value of the module's own example (2000), and one whose bytes and
\* function code add up to 0 mod 256 (253)
Currents ==
    {c \in 0..MaxCurrent :
        \/ c \in {0, 1, 253, 255, 256, 2000}
        \/ c >= CurrentLimit - 1}

\* a frame as a device computing the checksum over function code and data
\* would send it
DeviceFrame(addr, func, data) ==
    frame_header \o <<addr, func>> \o data
        \o <<(func + Sum(data)) % 256>> \o frame_tail

\* the data fields a device may answer with: the echo of what was sent, and
\* status reports (status byte, temperature high, temperature low)
ResponseData(sent) ==
    {sent, <<0, 1, 44>>, <<1, 1, 44>>, <<2, 0, 250>>, <<4, 0, 0>>, <<8, 0, 0>>}

\* what serial.read(10) may return after `frame` was written for `func`
Responses(frame, func, sent) ==
    {DeviceFrame(address, func, d) : d \in ResponseData(sent)}
    \cup { frame,                                             \* exact echo
           DeviceFrame(address + 1, func, sent),              \* other address
           DeviceFrame(address, func + 1, sent),              \* other function
           <<0, 170>> \o Slice(DeviceFrame(address, func, sent), 2, 10),
           Slice(DeviceFrame(address, func, sent), 0, 8) \o <<218, 0>>,
           Slice(DeviceFrame(address, func, sent), 0, 7) \o <<0>> \o frame_tail,
           Slice(DeviceFrame(address, func, sent), 0, 9),      \* timed out
           Slice(DeviceFrame(address, func, sent), 0, 7),
           frame_header \o <<address, func, sent[1], (func + sent[1]) % 256>>
               \o frame_tail,                                 \* 8 bytes
           frame_header \o <<address, func, sent[1], sent[2],
                              (func + sent[1] + sent[2]) % 256>>
               \o frame_tail,                                 \* 9 bytes
           <<>> }                                             \* nothing

-----------------------------------------------------------------------------
(* RS485Device: the operations, stepped at every serial call *)

\* what an operation returns when _send_and_receive returned None
Failed(op) == IF op = "get_device_status" THEN None ELSE PyBool(FALSE)

\* lines 89-106
DeviceStatus(response) ==
    LET status_byte == response[5] IN
    [tag |-> "status",
     status |-> IF status_byte = 0 THEN "Normal"
                ELSE IF status_byte % 2 = 1 THEN "Over-temperature alarm"
                ELSE IF (status_byte \div 2) % 2 = 1 THEN "Over-current alarm"
                ELSE IF (status_byte \div 4) % 2 = 1 THEN "Under-current alarm"
                ELSE "Unknown status",
     temperature_tenths |-> response[6] * 256 + response[7]]

\* faulty variant: a validated response counts as success whatever it echoes
Result_noecho(op, response, data) ==
    IF op = "get_device_status"
    THEN IF response # None /\ Len(response.bytes) >= 8
         THEN DeviceStatus(response.bytes) ELSE None
    ELSE PyBool(response # None /\ Len(response.bytes) > 0)

\* what an operation makes of the value _send_and_receive returned
\* (lines 62-66, 78-82, 89-108, 115-119); a bytes value is true when it is
\* not empty
Result(op, response, data) ==
    IF op = "get_device_status"
    THEN IF response # None /\ Len(response.bytes) >= 8
         THEN DeviceStatus(response.bytes) ELSE None
    ELSE PyBool(/\ response # None
                /\ Len(response.bytes) > 0
                /\ Slice(response.bytes, 4, 7) = data)

\* the frame is built and handed to _send_and_receive
Begin(op, func, data) ==
    /\ s_pc = "idle"
    /\ s_op' = op
    /\ s_func' = func
    /\ s_data' = data
    /\ s_frame' = build_frame(func, data)
    /\ s_pc' = "write"
    /\ UNCHANGED <<s_written, s_reads, s_response, s_result>>

\* lines 57-61
reset_output ==
    Begin("reset_output", 2, <<1, 0, 0>>) /\ UNCHANGED s_current

\* lines 68-77
set_output_current(current_ma) ==
    IF current_ma > CurrentLimit
    THEN /\ s_pc = "idle"
         /\ s_op' = "set_output_current"
         /\ s_current' = current_ma
         /\ s_result' = PyBool(FALSE)
         /\ s_pc' = "done"
         /\ UNCHANGED <<s_func, s_data, s_frame, s_written, s_reads, s_response>>
    ELSE /\ Begin("set_output_current", 3,
                  <<(current_ma \div 256) % 256, current_ma % 256, 0>>)
         /\ s_current' = current_ma

\* lines 84-88
get_device_status ==
    Begin("get_device_status", 5, <<1, 0, 0>>) /\ UNCHANGED s_current

\* lines 110-114
clear_fault ==
    Begin("clear_fault", 6, <<1, 0, 0>>) /\ UNCHANGED s_current

\* line 45: serial.write(frame); a SerialException ends _send_and_receive
\* with None (lines 53-55)
SerialWrite ==
    /\ s_pc = "write"
    /\ s_written' = Append(s_written, s_frame)
    /\ \/ /\ s_pc' = "read"
          /\ UNCHANGED s_result
       \/ /\ s_pc' = "done"
          /\ s_result' = Failed(s_op)
    /\ UNCHANGED <<s_op, s_func, s_current, s_data, s_frame, s_reads,
                   s_response>>

\* lines 47-55: serial.read(10), validation, and the operation's verdict
SerialRead ==
    /\ s_pc = "read"
    /\ s_reads' = s_reads + 1
    /\ s_pc' = "done"
    /\ \/ /\ s_result' = Failed(s_op)
          /\ UNCHANGED s_response
       \/ \E r \in Responses(s_frame, s_func, s_data) :
             /\ s_response' = r
             /\ s_result' =
                   Result(s_op,
                          IF validate_response(r, s_func) THEN Bytes(r) ELSE None,
                          s_data)
    /\ UNCHANGED <<s_op, s_func, s_current, s_data, s_frame, s_written>>

NextSerial ==
    \/ reset_output /\ UNCHANGED <<usbvars, facadevars>>
    \/ (\E c \in Currents : set_output_current(c)) /\ UNCHANGED <<usbvars, facadevars>>
    \/ get_device_status /\ UNCHANGED <<usbvars, facadevars>>
    \/ clear_fault /\ UNCHANGED <<usbvars, facadevars>>
    \/ SerialWrite /\ UNCHANGED <<usbvars, facadevars>>
    \/ SerialRead /\ UNCHANGED <<usbvars, facadevars>>

SpecSerial == Init /\ [][NextSerial]_vars

-----------------------------------------------------------------------------
(* Claims about the serial frame codec *)

\* C9: the checksum byte of a built frame is the sum of the function code
\* and the three data bytes, mod 256.
C9_ChecksumOverFuncAndData ==
    s_pc \in {"write", "read"} =>
        s_frame[8] = (s_func + s_data[1] + s_data[2] + s_data[3]) % 256

\* C10: the frame _build_frame produces for a function code is accepted by
\* _validate_response for that function code.
C10_BuiltFrameValidates ==
    s_pc \in {"write", "read"} => validate_response(s_frame, s_func)

\* C11: _validate_response accepts a response only if it is a complete
\* 10-byte frame with header 55 AA, tail DA C3, the configured address, the
\* expected function code and the checksum of function code and data; any
\* other response makes the operation end as after an invalid response.
C11_CompleteFrame ==
    LET r == s_response
        complete ==
            /\ Len(r) = 10
            /\ SubSeq(r, 1, 2) = frame_header
            /\ SubSeq(r, 9, 10) = frame_tail
            /\ r[3] = address
            /\ r[4] = s_func
            /\ r[8] = (r[4] + r[5] + r[6] + r[7]) % 256
    IN  (s_pc = "done" /\ s_reads = 1) =>
            /\ validate_response(r, s_func) => complete
            /\ ~complete => s_result = Failed(s_op)

-----------------------------------------------------------------------------
(* The operations of dmd: one send_command call as one step *)

Raised(e) == [tag |-> "raise", exc |-> e]
PyStr(x) == [tag |-> "str", value |-> x]
PyInt(n) == [tag |-> "int", value |-> n]

\* lines 126-136: one dev.write per pass of the while loop
RECURSIVE ChunkWrites(_)
ChunkWrites(remaining) ==
    IF Len(remaining) > 0
    THEN 1 + ChunkWrites(SliceFrom(remaining, PacketSize))
    ELSE 0

\* lines 112-136: the packets one frame is written in
NrPackets(m, s, c, p) ==
    IF FitsOnePacket(Header(m, s, c, p), p)
    THEN 1
    ELSE 1 + ChunkWrites(SliceFrom(p, FirstChunkPayload))

\* lines 115-119 and 132-136: dev.write calls of a frame of n packets that
\* is written completely; the single packet, or each continuation chunk,
\* may have failed once
OkWriteCalls(n) == IF n = 1 THEN {1, 2} ELSE n..(2 * n - 1)

\* dev.write calls of a frame whose writing ends in usb.USBError: the
\* single packet or a continuation chunk fails twice, the first packet of
\* several (line 124) fails once
FailedWriteCalls(n) ==
    IF n = 1 THEN {2}
    ELSE {1} \cup UNION {{k + 1 + r : r \in 0..(k - 2)} : k \in 2..n}

\* what the transport does during one send_command call
TransportRuns(m, s, c, p, replies) ==
    LET n == NrPackets(m, s, c, p)
        silent == [rok |-> TRUE, reply |-> <<>>]
        readruns == IF m = "r"
                    THEN {[rok |-> FALSE, reply |-> <<>>]}
                           \cup {[rok |-> TRUE, reply |-> a] : a \in replies}
                    ELSE {silent}
    IN  {[wok |-> TRUE, wcalls |-> k, rok |-> r.rok, reply |-> r.reply] :
            k \in OkWriteCalls(n), r \in readruns}
        \cup
        {[wok |-> FALSE, wcalls |-> k, rok |-> TRUE, reply |-> <<>>] :
            k \in FailedWriteCalls(n)}

\* lines 71-146 as one step: the transport calls made and the value returned
\* or the exception raised
Transaction(m, s, c, p, e) ==
    IF PayloadTooLarge(p)
    THEN [writes |-> 0, reads |-> 0, result |-> Raised(PayloadError)]
    ELSE IF ~e.wok
    THEN [writes |-> e.wcalls, reads |-> 0, result |-> Raised(USBError)]
    ELSE IF m # "r"
    THEN [writes |-> e.wcalls, reads |-> 0, result |-> parse_reply(None)]
    ELSE [writes |-> e.wcalls, reads |-> 1,
          result |-> IF ~e.rok THEN Raised(USBError)
                     ELSE IF Len(e.reply) = 0 THEN Raised("IndexError")
                     ELSE IF HasErrorFlag(e.reply) THEN Raised(FlagError)
                     ELSE IF parse_reply(Bytes(e.reply)) = IndexError
                     THEN Raised("IndexError")
                     ELSE parse_reply(Bytes(e.reply))]

\* a reply carrying the given data bytes, cut after `total` bytes
ReplyWith(flag, data, total) ==
    Slice(<<flag, 0, Len(data) % 256, Len(data) \div 256>>
            \o data \o Zeros(ReadSize - 4 - Len(data)),
          0, total)

\* the replies to a one-byte query: every value in `values`, an empty data
\* field, the error flag, a transfer cut inside the header, an empty transfer
RepliesTo(values) ==
    {ReplyWith(0, <<v>>, ReadSize) : v \in values}
    \cup {ReplyWith(0, <<>>, ReadSize), ReplyWith(32, <<0>>, ReadSize),
          ReplyWith(0, <<0>>, 3), ReplyWith(0, <<0>>, 0)}

\* the send_command call is logged, with the number of packets its frame is
\* cut into, and its transport calls are counted
Send(m, s, c, p, e) ==
    LET t == Transaction(m, s, c, p, e) IN
    /\ f_tx' = Append(f_tx, [mode |-> m, sequence_byte |-> s, command |-> c,
                             payload |-> p, result |-> t.result,
                             packets |-> NrPackets(m, s, c, p)])
    /\ usb_writes' = usb_writes + t.writes
    /\ usb_reads' = usb_reads + t.reads

\* an operation is called on a facade that is not inside another one
BeginOp(call) ==
    /\ f_pc \in {"idle", "done"}
    /\ f_call' = call
    /\ f_prev' = IF f_outcome # "returned" THEN "none"
                 ELSE IF f_call.op = "standby" THEN "standby"
                 ELSE IF f_call = [op |-> "set_display_mode", mode |-> "video"]
                 THEN "set_video"
                 ELSE "none"
    /\ last_read' = last_read
    /\ f_entry_mode' = current_mode
    /\ f_tx' = <<>>
    /\ usb_writes' = 0
    /\ usb_reads' = 0
    /\ f_local' = None

\* the operation returns r, or ends with the exception named in out
End(out, r) ==
    /\ f_pc' = "done"
    /\ f_outcome' = out
    /\ f_ret' = r

\* the operation passed its checks and goes on to its first send_command
Start(at) ==
    /\ f_pc' = at
    /\ f_outcome' = "running"
    /\ f_ret' = None

Continue(at) ==
    /\ f_pc' = at
    /\ UNCHANGED <<f_outcome, f_ret>>


-----------------------------------------------------------------------------
(* Display mode *)

\* line 54
display_modes ==
    ("video" :> 0) @@ ("pattern" :> 1) @@ ("video-pattern" :> 2)
        @@ ("otf" :> 3)

\* faulty variant: codes 0 and 1 change places
display_modes_inv_swapped ==
    (0 :> "pattern") @@ (1 :> "video") @@ (2 :> "video-pattern")
        @@ (3 :> "otf")

\* line 55
display_modes_inv ==
    (0 :> "video") @@ (1 :> "pattern") @@ (2 :> "video-pattern")
        @@ (3 :> "otf")

\* command 0x1A1B
DisplayModeCommand == 6683

\* the mode names set_display_mode is called with; one is not a mode
ModeNames == DOMAIN display_modes \cup {"standby"}

\* what the device may answer to the display-mode query; 4 is not a
\* documented mode code
ModeReplies == RepliesTo(0..4)

NotAMode == "ValueError: not a valid display mode"
InvalidTransition == "ValueError: video-pattern needs video mode first"
ModeActivationFailed == "ConnectionError: Mode activation failed."

\* line 428
UnknownMode(m) == m \notin DOMAIN display_modes

\* faulty variant: only a cached 'otf' mode bars video-pattern
TransitionRefused_otf(m, cached) == m = "video-pattern" /\ cached = "otf"

\* line 430
TransitionRefused(m, cached) == m = "video-pattern" /\ cached # "video"

\* faulty variant: the mode read is returned but not stored
display_mode_of_uncached(result, cached) ==
    IF result.tag = "raise"
    THEN [result |-> result, cache |-> cached]
    ELSE IF Len(result.data) = 0
    THEN [result |-> Raised("IndexError"), cache |-> cached]
    ELSE IF result.data[1] \notin DOMAIN display_modes_inv
    THEN [result |-> Raised("KeyError"), cache |-> cached]
    ELSE [result |-> PyStr(display_modes_inv[result.data[1]]),
          cache |-> cached]

\* lines 452-453: the transaction's result seen by get_display_mode: the
\* value returned or exception raised, and the cached mode afterwards
display_mode_of(result, cached) ==
    IF result.tag = "raise"
    THEN [result |-> result, cache |-> cached]
    ELSE IF Len(result.data) = 0
    THEN [result |-> Raised("IndexError"), cache |-> cached]
    ELSE IF result.data[1] \notin DOMAIN display_modes_inv
    THEN [result |-> Raised("KeyError"), cache |-> cached]
    ELSE [result |-> PyStr(display_modes_inv[result.data[1]]),
          cache |-> display_modes_inv[result.data[1]]]

\* what get_display_mode gave back, kept for the record
Remember(result) ==
    last_read' = IF result.tag = "raise" THEN last_read ELSE result.value

\* get_display_mode called on its own
get_display_mode ==
    /\ BeginOp([op |-> "get_display_mode"])
    /\ Start("query_mode")
    /\ UNCHANGED current_mode

\* lines 452-453
QueryMode ==
    /\ f_pc = "query_mode"
    /\ \E e \in TransportRuns("r", 0, DisplayModeCommand, <<>>, ModeReplies) :
         LET g == display_mode_of(
                     Transaction("r", 0, DisplayModeCommand, <<>>, e).result,
                     current_mode)
         IN  /\ Send("r", 0, DisplayModeCommand, <<>>, e)
             /\ current_mode' = g.cache
             /\ Remember(g.result)
             /\ IF g.result.tag = "raise"
                THEN End(g.result.exc, None)
                ELSE End("returned", g.result)
    /\ UNCHANGED <<f_call, f_prev, f_entry_mode, f_local>>

\* faulty variant: the cached mode is not consulted
set_display_mode_unchecked(m) ==
    /\ BeginOp([op |-> "set_display_mode", mode |-> m])
    /\ IF UnknownMode(m) THEN End(NotAMode, None)
       ELSE Start("mode_write")
    /\ UNCHANGED current_mode

\* lines 428-431: the checks made before anything is sent
set_display_mode(m) ==
    /\ BeginOp([op |-> "set_display_mode", mode |-> m])
    /\ IF UnknownMode(m) THEN End(NotAMode, None)
       ELSE IF TransitionRefused(m, current_mode)
       THEN End(InvalidTransition, None)
       ELSE Start("mode_write")
    /\ UNCHANGED current_mode

\* line 432
ModeWrite ==
    /\ f_pc = "mode_write"
    /\ LET p == <<display_modes[f_call.mode]>> IN
       \E e \in TransportRuns("w", 0, DisplayModeCommand, p, {}) :
         LET r == Transaction("w", 0, DisplayModeCommand, p, e).result IN
         /\ Send("w", 0, DisplayModeCommand, p, e)
         /\ IF r.tag = "raise" THEN End(r.exc, None)
            ELSE Continue("read_back")
    /\ UNCHANGED <<current_mode, last_read, f_call, f_prev, f_entry_mode,
                   f_local>>

\* faulty variant: whatever mode is read back is taken as confirmation
Compare_lenient(reported, m) == End("returned", None)

\* lines 436 and 439-440: the outcome of set_display_mode once a read-back
\* has returned the mode `reported`
Compare(reported, m) ==
    IF reported # m THEN End(ModeActivationFailed, None)
    ELSE End("returned", None)

\* faulty variant: an undocumented mode code is absorbed as well
Caught_KeyError(exc) == exc \in {"IndexError", "KeyError"}

\* line 437: the exceptions of the first read-back that are caught
Caught(exc) == exc = "IndexError"

\* lines 435-436 and 439-440: the first read-back
ReadBack ==
    /\ f_pc = "read_back"
    /\ \E e \in TransportRuns("r", 0, DisplayModeCommand, <<>>, ModeReplies) :
         LET g == display_mode_of(
                     Transaction("r", 0, DisplayModeCommand, <<>>, e).result,
                     current_mode)
         IN  /\ Send("r", 0, DisplayModeCommand, <<>>, e)
             /\ current_mode' = g.cache
             /\ Remember(g.result)
             /\ IF g.result.tag = "raise"
                THEN IF Caught(g.result.exc)
                     THEN Continue("read_back_again")
                     ELSE End(g.result.exc, None)
                ELSE Compare(g.result.value, f_call.mode)
    /\ UNCHANGED <<f_call, f_prev, f_entry_mode, f_local>>

\* lines 437-440: the read-back made after an IndexError
ReadBackAgain ==
    /\ f_pc = "read_back_again"
    /\ \E e \in TransportRuns("r", 0, DisplayModeCommand, <<>>, ModeReplies) :
         LET g == display_mode_of(
                     Transaction("r", 0, DisplayModeCommand, <<>>, e).result,
                     current_mode)
         IN  /\ Send("r", 0, DisplayModeCommand, <<>>, e)
             /\ current_mode' = g.cache
             /\ Remember(g.result)
             /\ IF g.result.tag = "raise"
                THEN End(g.result.exc, None)
                ELSE Compare(g.result.value, f_call.mode)
    /\ UNCHANGED <<f_call, f_prev, f_entry_mode, f_local>>

-----------------------------------------------------------------------------
(* Power mode *)

\* command 0x1A24
PatternControlCommand == 6692
\* command 0x0200
PowerCommand == 512
\* command 0x0201
IdleCommand == 513

\* what the device may answer to the idle and sleep queries
PowerReplies == RepliesTo(0..3)

StandbyFailed == "DMDerror: Failed to enter standby mode"

\* lines 578-587: a function body that ends without return gives None
powermode(idlestatus, sleepstatus) ==
    IF sleepstatus = 0
    THEN IF idlestatus = 0 THEN PyStr("normal")
         ELSE IF idlestatus = 1 THEN PyStr("idle")
         ELSE None
    ELSE IF sleepstatus = 1 THEN PyStr("standby")
    ELSE PyStr("undocumented state")

\* get_current_powermode called on its own
get_current_powermode ==
    /\ BeginOp([op |-> "get_current_powermode"])
    /\ Start("idle_query")
    /\ UNCHANGED current_mode

\* standby is called
standby ==
    /\ BeginOp([op |-> "standby"])
    /\ Start("stop_pattern")
    /\ UNCHANGED current_mode

\* stop_pattern called on its own
stop_pattern ==
    /\ BeginOp([op |-> "stop_pattern"])
    /\ Start("stop_pattern")
    /\ UNCHANGED current_mode

\* lines 561-562: idle_on is called
idle_on ==
    /\ BeginOp([op |-> "idle_on"])
    /\ Start("stop_pattern")
    /\ UNCHANGED current_mode

\* what follows stop_pattern in the operation that called it (lines 546,
\* 562), or its return when it was called on its own
AfterStop(op) ==
    IF op = "standby" THEN Continue("power_write")
    ELSE IF op = "idle_on" THEN Continue("idle_write")
    ELSE End("returned", None)

\* line 473, called on its own or from lines 545 and 561
StopPattern ==
    /\ f_pc = "stop_pattern"
    /\ \E e \in TransportRuns("w", 5, PatternControlCommand, <<0>>, {}) :
         LET r == Transaction("w", 5, PatternControlCommand, <<0>>, e).result
         IN  /\ Send("w", 5, PatternControlCommand, <<0>>, e)
             /\ IF r.tag = "raise" THEN End(r.exc, None)
                ELSE AfterStop(f_call.op)
    /\ UNCHANGED <<current_mode, last_read, f_call, f_prev, f_entry_mode,
                   f_local>>

\* line 546
PowerWrite ==
    /\ f_pc = "power_write"
    /\ \E e \in TransportRuns("w", 0, PowerCommand, <<1>>, {}) :
         LET r == Transaction("w", 0, PowerCommand, <<1>>, e).result
         IN  /\ Send("w", 0, PowerCommand, <<1>>, e)
             /\ IF r.tag = "raise" THEN End(r.exc, None)
                ELSE Continue("idle_query")
    /\ UNCHANGED <<current_mode, last_read, f_call, f_prev, f_entry_mode,
                   f_local>>

\* line 576: the idle flag is read and kept
IdleQuery ==
    /\ f_pc = "idle_query"
    /\ \E e \in TransportRuns("r", 0, IdleCommand, <<>>, PowerReplies) :
         LET r == Transaction("r", 0, IdleCommand, <<>>, e).result
         IN  /\ Send("r", 0, IdleCommand, <<>>, e)
             /\ IF r.tag = "raise"
                THEN End(r.exc, None) /\ UNCHANGED f_local
                ELSE IF Len(r.data) = 0
                THEN End("IndexError", None) /\ UNCHANGED f_local
                ELSE Continue("sleep_query") /\ f_local' = PyInt(r.data[1])
    /\ UNCHANGED <<current_mode, last_read, f_call, f_prev, f_entry_mode>>

\* faulty variant: whatever power mode is read back, standby returns
Confirm_lenient(pm) == End("returned", None)

\* lines 548-549: what standby makes of the power mode read back
Confirm(pm) ==
    IF pm # PyStr("standby") THEN End(StandbyFailed, None)
    ELSE End("returned", None)

\* lines 577-587, and 548-549 when called by standby
SleepQuery ==
    /\ f_pc = "sleep_query"
    /\ \E e \in TransportRuns("r", 0, PowerCommand, <<>>, PowerReplies) :
         LET r == Transaction("r", 0, PowerCommand, <<>>, e).result
         IN  /\ Send("r", 0, PowerCommand, <<>>, e)
             /\ IF r.tag = "raise" THEN End(r.exc, None)
                ELSE IF Len(r.data) = 0 THEN End("IndexError", None)
                ELSE IF f_call.op = "standby"
                THEN Confirm(powermode(f_local.value, r.data[1]))
                ELSE End("returned", powermode(f_local.value, r.data[1]))
    /\ UNCHANGED <<current_mode, last_read, f_call, f_prev, f_entry_mode,
                   f_local>>

-----------------------------------------------------------------------------
(* Pattern LUT *)

RECURSIVE BitAnd(_, _)
\* a & b for a, b >= 0
BitAnd(a, b) ==
    IF a = 0 \/ b = 0 THEN 0
    ELSE (a % 2) * (b % 2) + 2 * BitAnd(a \div 2, b \div 2)

RECURSIVE BitOr(_, _)
\* a | b for a, b >= 0
BitOr(a, b) ==
    IF a = 0 THEN b
    ELSE IF b = 0 THEN a
    ELSE Max(a % 2, b % 2) + 2 * BitOr(a \div 2, b \div 2)

\* a << n
ShiftLeft(a, n) == a * 2^n
\* a >> n for a >= 0
ShiftRight(a, n) == a \div 2^n

\* int(b) of a bool
int(b) == IF b THEN 1 ELSE 0

\* command 0x1A34
LutDefinitionCommand == 6708
\* command 0x1A31
LutStartCommand == 6705

\* faulty variant: byte 9 is left out of the payload
lut_payload_short(entry) ==
    LET pattern_index_bytes ==
            <<BitAnd(entry.pattern_index, 255),
              BitAnd(ShiftRight(entry.pattern_index, 8), 255)>>
        exposuretime_bytes ==
            <<BitAnd(entry.exposuretime, 255),
              BitAnd(ShiftRight(entry.exposuretime, 8), 255),
              BitAnd(ShiftRight(entry.exposuretime, 16), 255)>>
        darktime_bytes ==
            <<BitAnd(entry.darktime, 255),
              BitAnd(ShiftRight(entry.darktime, 8), 255),
              BitAnd(ShiftRight(entry.darktime, 16), 255)>>
        byte_10_11 ==
            <<BitAnd(entry.image_pattern_index, 255),
              BitOr(BitAnd(ShiftRight(entry.image_pattern_index, 8), 255),
                    ShiftLeft(BitAnd(entry.bit_position, 31), 3))>>
    IN  pattern_index_bytes \o exposuretime_bytes \o <<0>> \o darktime_bytes
            \o byte_10_11

\* lines 517-538; `&` binds weaker than `<<`, so x & 0x07 << 1 is
\* x & (0x07 << 1)
lut_payload(entry) ==
    LET disable_pattern_2_trigger_out ==
            int(entry.disable_pattern_2_trigger_out)
        extended_bit_depth == int(entry.extended_bit_depth)
        clear_after_exposure == 0
        wait_for_trigger == 0
        pattern_index_bytes ==
            <<BitAnd(entry.pattern_index, 255),
              BitAnd(ShiftRight(entry.pattern_index, 8), 255)>>
        exposuretime_bytes ==
            <<BitAnd(entry.exposuretime, 255),
              BitAnd(ShiftRight(entry.exposuretime, 8), 255),
              BitAnd(ShiftRight(entry.exposuretime, 16), 255)>>
        byte_5 ==
            BitOr(BitOr(BitOr(BitOr(0,
                BitAnd(clear_after_exposure, 1)),
                BitAnd(entry.bitdepth - 1, ShiftLeft(7, 1))),
                BitAnd(entry.color, ShiftLeft(7, 4))),
                BitAnd(wait_for_trigger, ShiftLeft(1, 7)))
        darktime_bytes ==
            <<BitAnd(entry.darktime, 255),
              BitAnd(ShiftRight(entry.darktime, 8), 255),
              BitAnd(ShiftRight(entry.darktime, 16), 255)>>
        byte_9 ==
            BitOr(BitOr(0,
                BitAnd(disable_pattern_2_trigger_out, 1)),
                BitAnd(extended_bit_depth, ShiftLeft(1, 1)))
        image_pattern_index_bytes ==
            <<BitAnd(entry.image_pattern_index, 255),
              BitAnd(ShiftRight(entry.image_pattern_index, 8), 255)>>
        bit_postion_byte == ShiftLeft(BitAnd(entry.bit_position, 31), 3)
        byte_10_11 ==
            <<image_pattern_index_bytes[1],
              BitOr(image_pattern_index_bytes[2], bit_postion_byte)>>
    IN  pattern_index_bytes \o exposuretime_bytes \o <<byte_5>>
            \o darktime_bytes \o <<byte_9>> \o byte_10_11

\* the default arguments of setup_pattern_LUT_definition (line 492)
DefaultEntry ==
    [pattern_index |-> 0, disable_pattern_2_trigger_out |-> FALSE,
     extended_bit_depth |-> FALSE, exposuretime |-> 15000, darktime |-> 0,
     color |-> 1, bitdepth |-> 8, image_pattern_index |-> 0,
     bit_position |-> 0]

\* an entry with every field away from its default and every byte of the
\* multi-byte fields non-zero
FullEntry ==
    [pattern_index |-> 399, disable_pattern_2_trigger_out |-> TRUE,
     extended_bit_depth |-> TRUE, exposuretime |-> 1193046,
     darktime |-> 70000, color |-> 7, bitdepth |-> 1,
     image_pattern_index |-> 258, bit_position |-> 23]

\* the entries tried: the two above, and the default entry with every bit
\* depth, every colour and every setting of the two flags
LutEntries ==
    {DefaultEntry, FullEntry}
    \cup {[DefaultEntry EXCEPT !.bitdepth = b] : b \in 1..8}
    \cup {[DefaultEntry EXCEPT !.color = c] : c \in 0..7}
    \cup {[DefaultEntry EXCEPT !.disable_pattern_2_trigger_out = d,
                               !.extended_bit_depth = x] :
             d \in BOOLEAN, x \in BOOLEAN}

\* setup_pattern_LUT_definition is called
setup_pattern_LUT_definition(entry) ==
    /\ BeginOp([op |-> "setup_pattern_LUT_definition", entry |-> entry])
    /\ Start("lut_write")
    /\ UNCHANGED current_mode

\* line 539
LutWrite ==
    /\ f_pc = "lut_write"
    /\ LET p == lut_payload(f_call.entry) IN
       \E e \in TransportRuns("w", 1, LutDefinitionCommand, p, {}) :
         LET r == Transaction("w", 1, LutDefinitionCommand, p, e).result
         IN  /\ Send("w", 1, LutDefinitionCommand, p, e)
             /\ IF r.tag = "raise" THEN End(r.exc, None)
                ELSE End("returned", None)
    /\ UNCHANGED <<current_mode, last_read, f_call, f_prev, f_entry_mode,
                   f_local>>

\* the entry counts and repeat counts start_pattern_from_LUT is called with:
\* every entry count with the default repeat count, the default entry count
\* with every repeat count, and the largest of both
EntryCounts == {0, 1, 3, 4, 255, 256, 400, 1023}
RepeatCounts == {0, 1, 256, 305419896, 2147483647}
StartArguments ==
    {<<n, 0>> : n \in EntryCounts} \cup {<<1, k>> : k \in RepeatCounts}
        \cup {<<1023, 2147483647>>}

\* lines 487-489
start_payload(nr_of_LUT_entries, nr_of_patterns_to_display) ==
    LET byte_01 == bits_to_bytes(number_to_bits(nr_of_LUT_entries, 10))
        byte_25 == bits_to_bytes(number_to_bits(nr_of_patterns_to_display, 32))
    IN  byte_01 \o byte_25

\* start_pattern_from_LUT is called
start_pattern_from_LUT(nr_of_LUT_entries, nr_of_patterns_to_display) ==
    /\ BeginOp([op |-> "start_pattern_from_LUT",
                nr_of_LUT_entries |-> nr_of_LUT_entries,
                nr_of_patterns_to_display |-> nr_of_patterns_to_display])
    /\ Start("start_write")
    /\ UNCHANGED current_mode

\* line 490
StartWrite ==
    /\ f_pc = "start_write"
    /\ LET p == start_payload(f_call.nr_of_LUT_entries,
                              f_call.nr_of_patterns_to_display)
       IN
       \E e \in TransportRuns("w", 1, LutStartCommand, p, {}) :
         LET r == Transaction("w", 1, LutStartCommand, p, e).result
         IN  /\ Send("w", 1, LutStartCommand, p, e)
             /\ IF r.tag = "raise" THEN End(r.exc, None)
                ELSE End("returned", None)
    /\ UNCHANGED <<current_mode, last_read, f_call, f_prev, f_entry_mode,
                   f_local>>

-----------------------------------------------------------------------------
(* On-the-fly load *)

\* longest encoded stream tried
MaxStreamLen == 300

\* line 749
chunk_size == 60

\* the lengths of the encoded streams tried: empty, one byte, both sides of
\* one and of two full chunks, and the longest, whose length takes two bytes
StreamLens ==
    {n \in 0..MaxStreamLen :
        n \in {0, 1, 59, 60, 61, 120, 121} \/ n = MaxStreamLen}

\* the byte streams encode(images) returns: ramps of non-zero bytes, so
\* that every position differs from its neighbours and from padding
EncodedStreams == {PayloadOf(n, "ramp") : n \in StreamLens}

\* the second value encode(images) returns: the length of the stream
encoded_length(encoded) == Len(encoded)

\* lines 738-739: 0x1A2A / 0x1A2C and 0x1A2B / 0x1A2D
init_cmd(primary) == IF primary THEN 6698 ELSE 6700
load_cmd(primary) == IF primary THEN 6699 ELSE 6701

\* faulty variant: the length goes out most significant byte first
length_bytes_be(length) ==
    <<BitAnd(ShiftRight(length, 24), 255),
      BitAnd(ShiftRight(length, 16), 255),
      BitAnd(ShiftRight(length, 8), 255), BitAnd(length, 255)>>

\* lines 743-744
length_bytes(length) ==
    <<BitAnd(length, 255), BitAnd(ShiftRight(length, 8), 255),
      BitAnd(ShiftRight(length, 16), 255),
      BitAnd(ShiftRight(length, 24), 255)>>

\* faulty variant: the slice ends one byte early
chunk_at_short(encoded, i) == Slice(encoded, i, i + chunk_size - 1)

\* line 751: list(encoded[i:i + chunk_size])
chunk_at(encoded, i) == Slice(encoded, i, i + chunk_size)

\* load_pattern_on_the_fly is called; line 737
load_pattern_on_the_fly(encoded, primary) ==
    /\ BeginOp([op |-> "load_pattern_on_the_fly", encoded |-> encoded,
                length |-> encoded_length(encoded), primary |-> primary])
    /\ Start("init_load")
    /\ UNCHANGED current_mode

\* line 750: range(0, len(encoded), chunk_size) gives i, or is exhausted
NextOffset(i) ==
    IF i < Len(f_call.encoded)
    THEN Continue("load_chunk") /\ f_local' = PyInt(i)
    ELSE End("returned", None) /\ UNCHANGED f_local

\* lines 742-745, and the first pass through line 750
InitLoad ==
    /\ f_pc = "init_load"
    /\ LET c == init_cmd(f_call.primary)
           p == length_bytes(f_call.length)
       IN
       \E e \in TransportRuns("w", 1, c, p, {}) :
         LET r == Transaction("w", 1, c, p, e).result
         IN  /\ Send("w", 1, c, p, e)
             /\ IF r.tag = "raise"
                THEN End(r.exc, None) /\ UNCHANGED f_local
                ELSE NextOffset(0)
    /\ UNCHANGED <<current_mode, last_read, f_call, f_prev, f_entry_mode>>

\* lines 750-752: one pass of the loop
LoadChunk ==
    /\ f_pc = "load_chunk"
    /\ LET c == load_cmd(f_call.primary)
           chunk_ == chunk_at(f_call.encoded, f_local.value)
       IN
       \E e \in TransportRuns("w", 1, c, chunk_, {}) :
         LET r == Transaction("w", 1, c, chunk_, e).result
         IN  /\ Send("w", 1, c, chunk_, e)
             /\ IF r.tag = "raise"
                THEN End(r.exc, None) /\ UNCHANGED f_local
                ELSE NextOffset(f_local.value + chunk_size)
    /\ UNCHANGED <<current_mode, last_read, f_call, f_prev, f_entry_mode>>

-----------------------------------------------------------------------------
(* Status queries *)

\* commands 0x1A0A, 0x1A49, 0x1A0B, 0x0100
HardwareStatusCommand == 6666
CommunicationStatusCommand == 6729
SystemStatusCommand == 6667
ErrorCommand == 256

\* the status bytes the two checks are answered with: every setting of the
\* bits they look at (bits 7 and 5), with and without the other bits
StatusBytes == {0, 1, 32, 95, 128, 160, 223, 255}

\* the error codes the last-error query is answered with: none, documented
\* ones, undocumented ones
ErrorCodes == {0, 1, 2, 17, 18, 255}

\* lines 277-294: the keys of error_dict
DocumentedErrors == 1..17 \cup {255}

CommunicationFailed == "DMDerror: Controller cannot communicate with DMD"
MemoryTestFailed == "DMDerror: Internal Memory Test failed"
UnboundLocalError == "UnboundLocalError"

\* a character of a bit string compared with the int 0 (lines 212 and 219):
\* a str never equals an int
CharEqualsInt(char, n) == FALSE

\* line 219
MemoryTestBitUnset(ansbit) == CharEqualsInt(ansbit[1], 0)

\* line 212: a == b == 0 is (a == b) and (b == 0)
CommunicationBitsClear(ansbit) ==
    ansbit[1] = ansbit[3] /\ CharEqualsInt(ansbit[3], 0)

\* the operations that make one read and decide on its first data byte
StatusQuery(op, at) ==
    /\ BeginOp([op |-> op])
    /\ Start(at)
    /\ UNCHANGED current_mode

check_system_status == StatusQuery("check_system_status", "system_status")
check_communication_status ==
    StatusQuery("check_communication_status", "communication_status")
check_for_error == StatusQuery("check_for_error", "last_error")
get_hardware_status == StatusQuery("get_hardware_status", "hardware_status")

\* lines 217-220
SystemStatus ==
    /\ f_pc = "system_status"
    /\ \E e \in TransportRuns("r", 10, SystemStatusCommand, <<>>,
                              RepliesTo(StatusBytes)) :
         LET r == Transaction("r", 10, SystemStatusCommand, <<>>, e).result
         IN  /\ Send("r", 10, SystemStatusCommand, <<>>, e)
             /\ IF r.tag = "raise" THEN End(r.exc, None)
                ELSE IF Len(r.data) = 0 THEN End("IndexError", None)
                ELSE IF MemoryTestBitUnset(number_to_bits(r.data[1], 8))
                THEN End(MemoryTestFailed, None)
                ELSE End("returned", None)
    /\ UNCHANGED <<current_mode, last_read, f_call, f_prev, f_entry_mode,
                   f_local>>

\* lines 210-213
CommunicationStatus ==
    /\ f_pc = "communication_status"
    /\ \E e \in TransportRuns("r", 10, CommunicationStatusCommand, <<>>,
                              RepliesTo(StatusBytes)) :
         LET r == Transaction("r", 10, CommunicationStatusCommand, <<>>,
                              e).result
         IN  /\ Send("r", 10, CommunicationStatusCommand, <<>>, e)
             /\ IF r.tag = "raise" THEN End(r.exc, None)
                ELSE IF Len(r.data) = 0 THEN End("IndexError", None)
                ELSE IF ~CommunicationBitsClear(number_to_bits(r.data[1], 8))
                THEN End(CommunicationFailed, None)
                ELSE End("returned", None)
    /\ UNCHANGED <<current_mode, last_read, f_call, f_prev, f_entry_mode,
                   f_local>>

\* lines 295-296: the text that is printed
error_message(code) ==
    [tag |-> "printed", code |-> code,
     text |-> IF code \in DocumentedErrors THEN "error_dict entry"
              ELSE "Undocumented error"]

\* lines 265-296: the message is printed (kept in f_local) and the function
\* ends without a return statement
LastError ==
    /\ f_pc = "last_error"
    /\ \E e \in TransportRuns("r", 34, ErrorCommand, <<>>,
                              RepliesTo(ErrorCodes)) :
         LET r == Transaction("r", 34, ErrorCommand, <<>>, e).result
         IN  /\ Send("r", 34, ErrorCommand, <<>>, e)
             /\ IF r.tag = "raise"
                THEN End(r.exc, None) /\ UNCHANGED f_local
                ELSE IF Len(r.data) = 0
                THEN End("returned", None) /\ UNCHANGED f_local
                ELSE IF r.data[1] = 0
                THEN End("returned", None) /\ UNCHANGED f_local
                ELSE End("returned", None)
                       /\ f_local' = error_message(r.data[1])
    /\ UNCHANGED <<current_mode, last_read, f_call, f_prev, f_entry_mode>>

\* every status byte
HardwareStatusBytes == 0..255

\* lines 160-165: statusmessage and errors are used before they are
\* assigned (lines 168-169), which raises UnboundLocalError
UsedBeforeAssignment(status) ==
    \/ BitAnd(status, 1) = 0
    \/ BitAnd(status, 2) # 0

\* lines 167-206: the report, one line per bit looked at, and the number of
\* errors; ansbit[k] of the source is ansbit[k + 1] here
hardware_report(status) ==
    LET ansbit == number_to_bits(status, 8)
        line(k, clear, set) == IF ansbit[k] = 0 THEN clear ELSE set
        report ==
            <<line(1, "Internal Initialization Error",
                      "Internal Initialization Successful"),
              line(2, "System is compatible",
                      "Incompatible Controller or DMD"),
              line(3, "DMD Reset Controller has no errors",
                      "DMD Reset Controller Error"),
              line(4, "No Forced Swap Errors", "Forced Swap Error occurred"),
              line(5, "No Secondary Controller Present",
                      "Secondary Controller Present and Ready"),
              line(7, "Sequencer Abort Status reports no errors",
                      "Sequencer has detected an error condition"),
              line(8, "Sequencer reports no errors",
                      "Sequencer detected an error")>>
        errors == (1 - ansbit[1]) + ansbit[2] + ansbit[3] + ansbit[4]
                     + ansbit[7] + ansbit[8]
    IN  [tag |-> "tuple", statusmessage |-> report, errors |-> errors]

\* lines 158-206
HardwareStatus ==
    /\ f_pc = "hardware_status"
    /\ \E e \in TransportRuns("r", 10, HardwareStatusCommand, <<>>,
                              RepliesTo(HardwareStatusBytes)) :
         LET r == Transaction("r", 10, HardwareStatusCommand, <<>>, e).result
         IN  /\ Send("r", 10, HardwareStatusCommand, <<>>, e)
             /\ IF r.tag = "raise" THEN End(r.exc, None)
                ELSE IF Len(r.data) = 0 THEN End("IndexError", None)
                ELSE IF UsedBeforeAssignment(r.data[1])
                THEN End(UnboundLocalError, None)
                ELSE End("returned", hardware_report(r.data[1]))
    /\ UNCHANGED <<current_mode, last_read, f_call, f_prev, f_entry_mode,
                   f_local>>

-----------------------------------------------------------------------------
(* Operations that send one command and return *)

\* lines 461, 467, 553, 557, 566: the sequence byte, command and payload of
\* the operations that consist of one write
single_command ==
    [start_pattern |-> [sequence |-> 5, command |-> PatternControlCommand,
                        payload |-> <<2>>],
     pause_pattern |-> [sequence |-> 5, command |-> PatternControlCommand,
                        payload |-> <<1>>],
     wakeup        |-> [sequence |-> 0, command |-> PowerCommand,
                        payload |-> <<0>>],
     reset         |-> [sequence |-> 0, command |-> PowerCommand,
                        payload |-> <<2>>],
     idle_off      |-> [sequence |-> 0, command |-> IdleCommand,
                        payload |-> <<3>>]]

start_pattern ==
    /\ BeginOp([op |-> "start_pattern"])
    /\ Start("command_write")
    /\ UNCHANGED current_mode

pause_pattern ==
    /\ BeginOp([op |-> "pause_pattern"])
    /\ Start("command_write")
    /\ UNCHANGED current_mode

wakeup ==
    /\ BeginOp([op |-> "wakeup"])
    /\ Start("command_write")
    /\ UNCHANGED current_mode

reset ==
    /\ BeginOp([op |-> "reset"])
    /\ Start("command_write")
    /\ UNCHANGED current_mode

idle_off ==
    /\ BeginOp([op |-> "idle_off"])
    /\ Start("command_write")
    /\ UNCHANGED current_mode

\* the single send_command of the operation in progress
CommandWrite ==
    /\ f_pc = "command_write"
    /\ LET c == single_command[f_call.op] IN
       \E e \in TransportRuns("w", c.sequence, c.command, c.payload, {}) :
         LET r == Transaction("w", c.sequence, c.command, c.payload, e).result
         IN  /\ Send("w", c.sequence, c.command, c.payload, e)
             /\ IF r.tag = "raise" THEN End(r.exc, None)
                ELSE End("returned", None)
    /\ UNCHANGED <<current_mode, last_read, f_call, f_prev, f_entry_mode,
                   f_local>>

\* line 562
IdleWrite ==
    /\ f_pc = "idle_write"
    /\ \E e \in TransportRuns("w", 0, IdleCommand, <<1>>, {}) :
         LET r == Transaction("w", 0, IdleCommand, <<1>>, e).result
         IN  /\ Send("w", 0, IdleCommand, <<1>>, e)
             /\ IF r.tag = "raise" THEN End(r.exc, None)
                ELSE End("returned", None)
    /\ UNCHANGED <<current_mode, last_read, f_call, f_prev, f_entry_mode,
                   f_local>>

-----------------------------------------------------------------------------
(* The specification of the operations of dmd *)

NextFacade ==
    \/ get_display_mode /\ UNCHANGED <<usbvars, serialvars>>
    \/ QueryMode /\ UNCHANGED <<usbvars, serialvars>>
    \/ (\E m \in ModeNames : set_display_mode(m))
          /\ UNCHANGED <<usbvars, serialvars>>
    \/ ModeWrite /\ UNCHANGED <<usbvars, serialvars>>
    \/ ReadBack /\ UNCHANGED <<usbvars, serialvars>>
    \/ ReadBackAgain /\ UNCHANGED <<usbvars, serialvars>>
    \/ get_current_powermode /\ UNCHANGED <<usbvars, serialvars>>
    \/ standby /\ UNCHANGED <<usbvars, serialvars>>
    \/ StopPattern /\ UNCHANGED <<usbvars, serialvars>>
    \/ PowerWrite /\ UNCHANGED <<usbvars, serialvars>>
    \/ IdleQuery /\ UNCHANGED <<usbvars, serialvars>>
    \/ SleepQuery /\ UNCHANGED <<usbvars, serialvars>>
    \/ (\E entry \in LutEntries : setup_pattern_LUT_definition(entry))
          /\ UNCHANGED <<usbvars, serialvars>>
    \/ LutWrite /\ UNCHANGED <<usbvars, serialvars>>
    \/ (\E a \in StartArguments : start_pattern_from_LUT(a[1], a[2]))
          /\ UNCHANGED <<usbvars, serialvars>>
    \/ StartWrite /\ UNCHANGED <<usbvars, serialvars>>
    \/ (\E encoded \in EncodedStreams, primary \in BOOLEAN :
            load_pattern_on_the_fly(encoded, primary))
          /\ UNCHANGED <<usbvars, serialvars>>
    \/ InitLoad /\ UNCHANGED <<usbvars, serialvars>>
    \/ LoadChunk /\ UNCHANGED <<usbvars, serialvars>>
    \/ check_system_status /\ UNCHANGED <<usbvars, serialvars>>
    \/ SystemStatus /\ UNCHANGED <<usbvars, serialvars>>
    \/ check_communication_status /\ UNCHANGED <<usbvars, serialvars>>
    \/ CommunicationStatus /\ UNCHANGED <<usbvars, serialvars>>
    \/ check_for_error /\ UNCHANGED <<usbvars, serialvars>>
    \/ LastError /\ UNCHANGED <<usbvars, serialvars>>
    \/ get_hardware_status /\ UNCHANGED <<usbvars, serialvars>>
    \/ HardwareStatus /\ UNCHANGED <<usbvars, serialvars>>
    \/ stop_pattern /\ UNCHANGED <<usbvars, serialvars>>
    \/ idle_on /\ UNCHANGED <<usbvars, serialvars>>
    \/ IdleWrite /\ UNCHANGED <<usbvars, serialvars>>
    \/ start_pattern /\ UNCHANGED <<usbvars, serialvars>>
    \/ pause_pattern /\ UNCHANGED <<usbvars, serialvars>>
    \/ wakeup /\ UNCHANGED <<usbvars, serialvars>>
    \/ reset /\ UNCHANGED <<usbvars, serialvars>>
    \/ idle_off /\ UNCHANGED <<usbvars, serialvars>>
    \/ CommandWrite /\ UNCHANGED <<usbvars, serialvars>>

SpecFacade == Init /\ [][NextFacade]_vars

-----------------------------------------------------------------------------
(* Claims about the display mode *)

\* C12: set_display_mode('video-pattern') called while the cached mode is
\* not 'video', and set_display_mode of an unknown mode name, end with a
\* ValueError before any command is sent: no send_command call, no
\* dev.write, no dev.read, and the cached mode is what it was at the call.
C12_RefusedBeforeSending ==
    (/\ f_call.op = "set_display_mode"
     /\ \/ f_call.mode \notin {"video", "pattern", "video-pattern", "otf"}
        \/ f_call.mode = "video-pattern" /\ f_entry_mode # "video")
    => /\ f_pc = "done"
       /\ f_outcome = IF f_call.mode = "video-pattern"
                      THEN InvalidTransition ELSE NotAMode
       /\ f_tx = <<>>
       /\ usb_writes = 0
       /\ usb_reads = 0
       /\ current_mode = f_entry_mode

\* a fresh facade (cached mode 'pattern') was asked for video-pattern
C12_Witness ==
    /\ f_call.op = "set_display_mode"
    /\ f_call.mode = "video-pattern"
    /\ f_entry_mode = "pattern"
    /\ f_outcome = InvalidTransition
    /\ usb_writes = 0

\* the last send_command call of the operation
LastTx == f_tx[Len(f_tx)]

\* the call t is a display-mode query the device answered with data
IsModeReport(t) ==
    /\ t.mode = "r"
    /\ t.command = DisplayModeCommand
    /\ t.result.tag = "reply"
    /\ Len(t.result.data) > 0

\* the display mode a first data byte stands for in the user guide
ModeOfCode(code) ==
    CASE code = 0 -> "video"
      [] code = 1 -> "pattern"
      [] code = 2 -> "video-pattern"
      [] code = 3 -> "otf"
      [] OTHER -> "undocumented"

\* the mode the device reported in the call t
Reported(t) == ModeOfCode(t.result.data[1])

\* C13: set_display_mode returns normally only if the mode read back after
\* the mode-write equals the target, and then the cached mode is the target;
\* a read-back reporting another mode ends in the mode-activation failure
\* with the cached mode holding the reported mode, never the target.
C13_ReadBackDecides ==
    (f_call.op = "set_display_mode" /\ f_pc = "done" /\ Len(f_tx) > 0) =>
       /\ f_outcome = "returned" =>
             /\ Len(f_tx) >= 2
             /\ f_tx[1].mode = "w"
             /\ IsModeReport(LastTx)
             /\ Reported(LastTx) = f_call.mode
             /\ current_mode = f_call.mode
       /\ f_outcome = ModeActivationFailed <=>
             /\ Len(f_tx) >= 2
             /\ IsModeReport(LastTx)
             /\ Reported(LastTx) \notin {f_call.mode, "undocumented"}
       /\ f_outcome = ModeActivationFailed =>
             /\ current_mode = Reported(LastTx)
             /\ current_mode # f_call.mode

\* the device reported a mode that is neither the target nor the mode cached
\* before the call
C13_Witness ==
    /\ f_call.op = "set_display_mode"
    /\ f_outcome = ModeActivationFailed
    /\ current_mode \notin {f_call.mode, f_entry_mode}

\* the first read-back of a set_display_mode call: its second send_command
FirstReadBack == f_tx[2]

\* the query t ended in IndexError: the transfer was shorter than the reply
\* header, or the reply carried no data byte
Glitched(t) ==
    \/ t.result = Raised("IndexError")
    \/ t.result.tag = "reply" /\ Len(t.result.data) = 0

\* C14 as stated: when the first read-back does not confirm the target (it
\* reports another mode, or the reply is glitched), the read-back query is
\* issued once more before the operation ends.
C14_RetryOnMismatch ==
    (/\ f_call.op = "set_display_mode"
     /\ f_pc = "done"
     /\ Len(f_tx) >= 2
     /\ \/ Glitched(FirstReadBack)
        \/ /\ IsModeReport(FirstReadBack)
           /\ Reported(FirstReadBack) # f_call.mode)
    => Len(f_tx) = 3

\* C14, amended: the read-back query is repeated, once, exactly when the
\* first read-back raises IndexError; a first read-back that reports another
\* mode ends the call at once in the mode-activation failure; after the
\* repetition the call returns if and only if the second read-back reports
\* the target; no call makes more than two read-back queries.
C14_RetryOnIndexErrorOnly ==
    (f_call.op = "set_display_mode" /\ Len(f_tx) >= 2) =>
       /\ Len(f_tx) <= 3
       /\ \A k \in 2..Len(f_tx) :
             f_tx[k].mode = "r" /\ f_tx[k].command = DisplayModeCommand
       /\ IF Glitched(FirstReadBack)
          THEN \/ f_pc = "read_back_again" /\ Len(f_tx) = 2
               \/ /\ f_pc = "done"
                  /\ Len(f_tx) = 3
                  /\ f_outcome = "returned" <=>
                        /\ IsModeReport(LastTx)
                        /\ Reported(LastTx) = f_call.mode
          ELSE /\ f_pc = "done"
               /\ Len(f_tx) = 2
               /\ (IsModeReport(FirstReadBack)
                     /\ Reported(FirstReadBack) \notin
                           {f_call.mode, "undocumented"})
                  => f_outcome = ModeActivationFailed

\* a glitched first read-back was followed by one that confirmed the target
C14_Witness ==
    /\ f_call.op = "set_display_mode"
    /\ Len(f_tx) = 3
    /\ Glitched(FirstReadBack)
    /\ f_outcome = "returned"

\* C15: every get_display_mode call issues one read transaction to the
\* display-mode command; when it returns, the cached mode and the returned
\* value are the mode the device reported; when the transaction fails
\* (transport error, error flag, glitched reply, undocumented code) the
\* cached mode is what it was at the call.
C15_AlwaysQueries ==
    (f_call.op = "get_display_mode" /\ f_pc = "done") =>
       /\ Len(f_tx) = 1
       /\ f_tx[1].mode = "r"
       /\ f_tx[1].command = DisplayModeCommand
       /\ f_tx[1].payload = <<>>
       /\ usb_writes >= 1
       /\ IF f_outcome = "returned"
          THEN /\ usb_reads = 1
               /\ IsModeReport(LastTx)
               /\ Reported(LastTx) # "undocumented"
               /\ current_mode = Reported(LastTx)
               /\ f_ret = PyStr(Reported(LastTx))
          ELSE /\ current_mode = f_entry_mode
               /\ ~(IsModeReport(LastTx)
                      /\ Reported(LastTx) # "undocumented")

\* the query replaced a cached mode by another one
C15_Witness ==
    /\ f_call.op = "get_display_mode"
    /\ f_outcome = "returned"
    /\ f_entry_mode = "pattern"
    /\ current_mode = "video"
    /\ f_ret = PyStr("video")

-----------------------------------------------------------------------------
(* Claims about the power mode *)

\* the call t is a read of command c the device answered with data
IsFlagReport(t, c) ==
    /\ t.mode = "r"
    /\ t.command = c
    /\ t.result.tag = "reply"
    /\ Len(t.result.data) > 0

\* both flags of the power-mode query that ends the operation were answered
PowerModeRead ==
    /\ Len(f_tx) >= 2
    /\ IsFlagReport(f_tx[Len(f_tx) - 1], 513)
    /\ IsFlagReport(LastTx, 512)

\* C16: standby issues, in this order, the stop-pattern write (0 to 0x1A24),
\* the power-mode write (1 to 0x0200) and the power-mode query; it returns
\* normally if and only if the power mode read back is standby (sleep flag
\* 1), and ends in the transition failure when another power mode is read
\* back, whatever came before the call.
C16_StandbyConfirmed ==
    (f_call.op = "standby") =>
       /\ Len(f_tx) <= 4
       /\ Len(f_tx) >= 1 =>
             /\ f_tx[1].mode = "w"
             /\ f_tx[1].command = 6692
             /\ f_tx[1].payload = <<0>>
       /\ Len(f_tx) >= 2 =>
             /\ f_tx[2].mode = "w"
             /\ f_tx[2].command = 512
             /\ f_tx[2].payload = <<1>>
       /\ Len(f_tx) >= 3 => f_tx[3].mode = "r" /\ f_tx[3].command = 513
       /\ Len(f_tx) >= 4 => f_tx[4].mode = "r" /\ f_tx[4].command = 512
       /\ (f_pc = "done" /\ f_outcome = "returned") <=>
             /\ Len(f_tx) = 4
             /\ PowerModeRead
             /\ LastTx.result.data[1] = 1
       /\ (Len(f_tx) = 4 /\ PowerModeRead /\ LastTx.result.data[1] # 1)
             => f_pc = "done" /\ f_outcome = StandbyFailed
       /\ f_outcome = StandbyFailed => Len(f_tx) = 4 /\ PowerModeRead

\* standby returned, right after an earlier standby call had returned
C16_Witness ==
    /\ f_call.op = "standby"
    /\ f_prev = "standby"
    /\ f_pc = "done"
    /\ f_outcome = "returned"
    /\ Len(f_tx) = 4

\* C17: get_current_powermode issues two read transactions, the idle flag at
\* 0x0201 and the sleep flag at 0x0200, and whatever bytes the device
\* returns for the two flags, the value returned is one of normal, idle,
\* standby, undocumented state.
C17_OneOfFourModes ==
    (/\ f_call.op = "get_current_powermode"
     /\ f_pc = "done"
     /\ f_outcome = "returned")
    => /\ Len(f_tx) = 2
       /\ IsFlagReport(f_tx[1], 513)
       /\ IsFlagReport(f_tx[2], 512)
       /\ f_ret \in {PyStr("normal"), PyStr("idle"), PyStr("standby"),
                     PyStr("undocumented state")}

-----------------------------------------------------------------------------
(* Claims about the pattern LUT *)

\* C18 as stated: setup_pattern_LUT_definition sends one write transaction
\* to 0x1A34 whose payload is 11 bytes long.
C18_ElevenBytes ==
    (f_call.op = "setup_pattern_LUT_definition" /\ f_pc = "done") =>
       /\ Len(f_tx) = 1
       /\ f_tx[1].mode = "w"
       /\ f_tx[1].command = 6708
       /\ Len(f_tx[1].payload) = 11

\* C18, amended: for every entry, setup_pattern_LUT_definition sends exactly
\* one write transaction to 0x1A34, in one packet, whose payload is exactly
\* 12 bytes long, each of them a byte.
C18_TwelveBytes ==
    (f_call.op = "setup_pattern_LUT_definition") =>
       IF f_pc = "done"
       THEN /\ Len(f_tx) = 1
            /\ f_tx[1].mode = "w"
            /\ f_tx[1].command = 6708
            /\ Len(f_tx[1].payload) = 12
            /\ \A k \in 1..12 : f_tx[1].payload[k] \in 0..255
            /\ usb_writes \in {1, 2}
            /\ usb_reads = 0
       ELSE f_tx = <<>>

\* an entry with every field set went out
C18_Witness ==
    /\ f_call.op = "setup_pattern_LUT_definition"
    /\ f_call.entry.pattern_index = 399
    /\ f_call.entry.bit_position = 23
    /\ f_pc = "done"
    /\ f_outcome = "returned"
    /\ Len(f_tx[1].payload) = 12

\* C19: start_pattern_from_LUT(entry_count, repeat_count) sends one write to
\* 0x1A31 with a 6-byte payload: entry_count little-endian in the first two
\* bytes (entry_count mod 256, entry_count div 256), repeat_count
\* little-endian in the next four.
C19_LittleEndianCounts ==
    (f_call.op = "start_pattern_from_LUT" /\ f_pc = "done") =>
       LET n == f_call.nr_of_LUT_entries
           k == f_call.nr_of_patterns_to_display
       IN  /\ Len(f_tx) = 1
           /\ f_tx[1].mode = "w"
           /\ f_tx[1].command = 6705
           /\ f_tx[1].payload =
                 <<n % 256, n \div 256,
                   k % 256, (k \div 256) % 256, (k \div 65536) % 256,
                   k \div 16777216>>

-----------------------------------------------------------------------------
(* Claims about the on-the-fly load *)

\* the send_command calls of the operation after the first one
LoadData == SubSeq(f_tx, 2, Len(f_tx))

RECURSIVE ConcatPayloads(_)
\* the payloads of the calls ts, one after the other
ConcatPayloads(ts) ==
    IF Len(ts) = 0 THEN <<>> ELSE ts[1].payload \o ConcatPayloads(Tail(ts))

\* C20: a load_pattern_on_the_fly call that completes on an encoded stream
\* of length L has issued ceil(L/60) load-data transactions (none for
\* L = 0), each carrying at most 60 bytes, and their payloads in send order
\* make up the encoded stream exactly; at every point of the call the
\* payloads sent so far are the beginning of the stream.
C20_ChunksMakeStream ==
    (f_call.op = "load_pattern_on_the_fly" /\ Len(f_tx) >= 1) =>
       LET L == Len(f_call.encoded) IN
       /\ \A k \in 1..Len(LoadData) :
             /\ LoadData[k].mode = "w"
             /\ LoadData[k].command \in {6699, 6701}
             /\ Len(LoadData[k].payload) <= 60
             /\ Len(LoadData[k].payload) >= 1
       /\ Len(ConcatPayloads(LoadData)) <= L
       /\ ConcatPayloads(LoadData)
             = SubSeq(f_call.encoded, 1, Len(ConcatPayloads(LoadData)))
       /\ (f_pc = "done" /\ f_outcome = "returned") =>
             /\ Len(LoadData) = (L + 59) \div 60
             /\ ConcatPayloads(LoadData) = f_call.encoded

\* a stream of two full chunks and one more byte was sent completely
C20_Witness ==
    /\ f_call.op = "load_pattern_on_the_fly"
    /\ Len(f_call.encoded) = 121
    /\ f_pc = "done"
    /\ f_outcome = "returned"
    /\ Len(f_tx) = 4
    /\ Len(f_tx[4].payload) = 1

\* C21: in load_pattern_on_the_fly the first transaction is the
\* initialize-load write carrying the encoded length in 4 bytes
\* little-endian (0x1A2A primary, 0x1A2C secondary); every later one is a
\* load-data write to the code of the same controller (0x1A2B, 0x1A2D)
\* carrying the next 60 bytes of the stream; the codes of the two
\* controllers are never mixed, and a transaction that fails is the last.
C21_InitThenChunksInOrder ==
    (f_call.op = "load_pattern_on_the_fly" /\ Len(f_tx) >= 1) =>
       LET L == Len(f_call.encoded) IN
       /\ f_call.length = L
       /\ f_tx[1].mode = "w"
       /\ f_tx[1].command = IF f_call.primary THEN 6698 ELSE 6700
       /\ f_tx[1].payload =
             <<L % 256, (L \div 256) % 256, (L \div 65536) % 256,
               (L \div 16777216) % 256>>
       /\ \A k \in 2..Len(f_tx) :
             /\ f_tx[k].mode = "w"
             /\ f_tx[k].command = IF f_call.primary THEN 6699 ELSE 6701
             /\ 60 * (k - 2) < L
             /\ f_tx[k].payload =
                   SubSeq(f_call.encoded, 60 * (k - 2) + 1,
                          Min(60 * (k - 1), L))
       /\ \A k \in 1..(Len(f_tx) - 1) : f_tx[k].result.tag # "raise"
       /\ LastTx.result.tag = "raise" =>
             f_pc = "done" /\ f_outcome = LastTx.result.exc

\* the secondary controller was sent a stream whose length takes two bytes
C21_Witness ==
    /\ f_call.op = "load_pattern_on_the_fly"
    /\ ~f_call.primary
    /\ Len(f_call.encoded) = 300
    /\ f_pc = "done"
    /\ f_outcome = "returned"
    /\ Len(f_tx) = 6
    /\ f_tx[1].payload = <<44, 1, 0, 0>>

\* C22: every load-data transaction of load_pattern_on_the_fly, one with a
\* full 60-byte chunk included, fits in a single 64-byte packet: its frame
\* (header and chunk) is at most 64 bytes and is written as one packet.
C22_OnePacketPerChunk ==
    (f_call.op = "load_pattern_on_the_fly") =>
       \A k \in 2..Len(f_tx) :
          /\ 6 + Len(f_tx[k].payload) <= 64
          /\ f_tx[k].packets = 1

-----------------------------------------------------------------------------
(* Claims about the status queries *)

\* the first data byte of the reply to the only query of the operation
StatusByte == f_tx[1].result.data[1]

\* bit k (0 the least significant) of the byte b
BitOf(b, k) == (b \div 2^k) % 2

\* C23: check_system_status makes one read transaction, leaves the cached
\* mode alone, and raises the memory-test fault whenever the bit it looks
\* at (the first character of the bit string, bit 7 of the status byte) is
\* unset.
C23_MemoryFaultRaised ==
    (/\ f_call.op = "check_system_status"
     /\ f_pc = "done"
     /\ IsFlagReport(f_tx[1], 6667))
    => /\ Len(f_tx) = 1
       /\ current_mode = f_entry_mode
       /\ BitOf(StatusByte, 7) = 0 => f_outcome = MemoryTestFailed

\* C24: check_communication_status returns without raising when the bits
\* it looks at (the first and third character of the bit string, bits 7
\* and 5 of the status byte) are both clear, and raises otherwise.
C24_RaisesOnlyOnFault ==
    (/\ f_call.op = "check_communication_status"
     /\ f_pc = "done"
     /\ IsFlagReport(f_tx[1], 6729))
    => IF BitOf(StatusByte, 7) = 0 /\ BitOf(StatusByte, 5) = 0
       THEN f_outcome = "returned"
       ELSE f_outcome = CommunicationFailed

\* C25: check_for_error returns normally only when the last-error query
\* reports code 0; a non-zero code makes it raise.
C25_ErrorNeverHidden ==
    (/\ f_call.op = "check_for_error"
     /\ f_pc = "done"
     /\ IsFlagReport(f_tx[1], 256))
    => (f_outcome = "returned" <=> StatusByte = 0)

\* C26: for every status byte get_hardware_status returns a pair (report,
\* errors), errors being the number of error conditions the byte flags in
\* the decoding of lines 170-205: bit 7 clear, bits 6, 5, 4, 1, 0 set.
C26_HardwareStatusTotal ==
    (/\ f_call.op = "get_hardware_status"
     /\ f_pc = "done"
     /\ IsFlagReport(f_tx[1], 6666))
    => /\ f_outcome = "returned"
       /\ f_ret.tag = "tuple"
       /\ f_ret.errors =
             (1 - BitOf(StatusByte, 7)) + BitOf(StatusByte, 6)
                + BitOf(StatusByte, 5) + BitOf(StatusByte, 4)
                + BitOf(StatusByte, 1) + BitOf(StatusByte, 0)

\* C27: the payload of setup_pattern_LUT_definition carries every field: the
\* byte after the exposure bytes holds bitdepth-1 in bits 1..3 and the
\* colour in bits 4..6, the byte after the dark-time bytes holds
\* disable_pattern_2_trigger_out in bit 0 and extended_bit_depth in bit 1.
C27_FieldsInPayload ==
    (f_call.op = "setup_pattern_LUT_definition" /\ f_pc = "done") =>
       LET entry == f_call.entry
           p == f_tx[1].payload
       IN  /\ p[6] = 2 * (entry.bitdepth - 1) + 16 * entry.color
           /\ p[10] = (IF entry.disable_pattern_2_trigger_out THEN 1 ELSE 0)
                        + 2 * (IF entry.extended_bit_depth THEN 1 ELSE 0)

-----------------------------------------------------------------------------
(* RS485Device: one exchange per operation *)

EchoOperations == {"reset_output", "set_output_current", "clear_fault"}

\* C28: every serial operation writes at most one frame and then reads at
\* most once, without a retry; reset_output, set_output_current and
\* clear_fault return True only when the response read passed
\* _validate_response and its bytes 4..6 equal the data bytes sent, and
\* return False when the response was invalid or a serial call raised;
\* set_output_current above 3500 returns False with nothing written or read.
C28_SingleExchange ==
    /\ Len(s_written) <= 1
    /\ s_reads <= 1
    /\ s_reads = 1 => s_written = <<s_frame>>
    /\ (s_pc = "done" /\ s_op \in EchoOperations) =>
          /\ s_result \in {PyBool(TRUE), PyBool(FALSE)}
          /\ s_result = PyBool(TRUE) =>
                /\ s_reads = 1
                /\ validate_response(s_response, s_func)
                /\ <<s_response[5], s_response[6], s_response[7]>> = s_data
          /\ (s_reads = 0 \/ ~validate_response(s_response, s_func)) =>
                s_result = PyBool(FALSE)
    /\ (s_op = "set_output_current" /\ s_current > 3500) =>
          /\ s_pc = "done"
          /\ s_result = PyBool(FALSE)
          /\ s_written = <<>>
          /\ s_reads = 0
    /\ (s_op = "set_output_current" /\ s_current <= 3500 /\ s_pc = "done") =>
          (s_written = <<>> => s_reads = 0 /\ s_result = PyBool(FALSE))

\* set_output_current(2000) returned True after one write and one read
C28_Witness ==
    /\ s_pc = "done"
    /\ s_op = "set_output_current"
    /\ s_current = 2000
    /\ s_result = PyBool(TRUE)
    /\ Len(s_written) = 1
    /\ s_reads = 1

-----------------------------------------------------------------------------
(* Claims about the cached display mode across operations *)

\* the call t is the mode-write that selects video-pattern
IsVideoPatternWrite(t) ==
    t.mode = "w" /\ t.command = DisplayModeCommand /\ t.payload = <<2>>

\* the send_command call made in this step, when one was made
Sent == Len(f_tx') = Len(f_tx) + 1
NewTx == f_tx'[Len(f_tx')]

\* C29: in every sequence of operations the mode-write selecting
\* video-pattern (payload 2 to 0x1A1B) is sent only when the latest
\* get_display_mode that returned gave 'video' (so never on a fresh facade
\* before such a read); and a set_display_mode('video-pattern') called
\* right after a set_display_mode('video') that returned is not refused and
\* sends that mode-write as its first command.
C29_VideoBeforeVideoPattern ==
    /\ [][(Sent /\ IsVideoPatternWrite(NewTx)) => last_read = "video"]_vars
    /\ []((/\ f_call = [op |-> "set_display_mode", mode |-> "video-pattern"]
           /\ f_prev = "set_video")
          => /\ f_outcome # InvalidTransition
             /\ (f_pc # "mode_write")
                   => (f_tx # <<>> /\ IsVideoPatternWrite(f_tx[1])))

\* set_display_mode('video-pattern'), called right after a successful
\* set_display_mode('video'), sent its mode-write and returned
C29_Witness ==
    /\ f_call = [op |-> "set_display_mode", mode |-> "video-pattern"]
    /\ f_prev = "set_video"
    /\ f_outcome = "returned"
    /\ IsVideoPatternWrite(f_tx[1])
    /\ last_read = "video-pattern"

\* C30: the cached display mode changes only in a display-mode read that
\* returned, made by get_display_mode or inside set_display_mode, and then
\* becomes the mode the device reported; every other step of every
\* operation leaves it alone, so it always equals 'pattern' (no read has
\* returned yet) or the mode the latest read that returned gave.
C30_CacheFollowsReads ==
    /\ [](current_mode = IF last_read = "none" THEN "pattern" ELSE last_read)
    /\ [][(current_mode' # current_mode \/ last_read' # last_read)
          => /\ f_call.op \in {"get_display_mode", "set_display_mode"}
             /\ Sent
             /\ IsModeReport(NewTx)
             /\ current_mode' = Reported(NewTx)
             /\ last_read' = Reported(NewTx)]_vars
    /\ [][(Sent /\ IsModeReport(NewTx) /\ Reported(NewTx) # "undocumented")
          => last_read' = Reported(NewTx)]_vars
    /\ [][(f_call'.op \notin {"get_display_mode", "set_display_mode"})
          => current_mode' = current_mode]_vars

\* reset ran to its end on a facade whose last read gave 'otf'
C30_Witness ==
    /\ f_call.op = "reset"
    /\ f_outcome = "returned"
    /\ Len(f_tx) = 1
    /\ last_read = "otf"
    /\ current_mode = "otf"

=============================================================================
